---- MODULE Spec2Model ----
(***************************************************************************)
(* DBSCAN over a 2-D tree (rust_dbscan): the fast spherical metric, the    *)
(* K-D tree construction and range query, the clustering loop of db_scan   *)
(* and the label/filter post-processing of main.rs.                        *)
(*                                                                         *)
(* Numbers.  The program computes in f64; the model computes the same      *)
(* formulas exactly, in fixed point:                                       *)
(*   - a coordinate is an integer count of 15-degree units, so an angle    *)
(*     "degrees * DEGREE_RAD" is the same integer with PI = PiUnits = 12;  *)
(*   - fast_sine / fast_cos values are integers over SineScale = 5760;     *)
(*   - sq_dist values are integers over SineScale^2;                       *)
(*   - a radius is an integer over SineScale, so r*r is over SineScale^2   *)
(*     and every comparison of the code is an exact integer comparison.    *)
(* Input coordinates are even, so the midpoints (a + b) / 2.0 the code     *)
(* forms are integers.  Rounding of f64 is not modelled.                   *)
(*                                                                         *)
(* Indices.  Point ids, cluster ids and Vec positions are 0-based as in    *)
(* the code; a Vec is a TLA+ sequence read through At (position j is       *)
(* element j + 1).  Option<Box<Node>> is <<>> for None, <<node>> for Some. *)
(***************************************************************************)
EXTENDS Integers, Sequences, FiniteSets, TLC

(***************************************************************************)
(* Bounds of the model                                                     *)
(***************************************************************************)
\* longest point list drawn exhaustively from Grid
MaxPoints == 4
\* eps ranges over RadiusStep * (-1 .. MaxRadius)
MaxRadius == 2
\* min_points ranges over 1 .. MaxMinPoints
MaxMinPoints == 4
\* fast_cos is called with -MaxAngle .. MaxAngle, in units of 15 degrees
MaxAngle == 60
\* centroid_and_bounds is called with at most MaxBoxPoints points and members
MaxBoxPoints == 2
\* a tree is built over at most MaxTreePoints points, then takes at most MaxInserts inserts
MaxTreePoints == 3
MaxInserts == 2

(***************************************************************************)
(* Vec helpers                                                             *)
(***************************************************************************)
At(v, j) == v[j + 1]

Abs(x) == IF x < 0 THEN -x ELSE x

ToSet(v) == {v[k] : k \in 1..Len(v)}

Contains(v, x) == \E k \in 1..Len(v) : v[k] = x

\* vec![x; n]
Repeat(x, n) == [k \in 1..n |-> x]

\* v[j] = x
SetAt(v, j, x) == [v EXCEPT ![j + 1] = x]

(***************************************************************************)
(* distance.rs                                                             *)
(***************************************************************************)
\* PI, in angle units of 15 degrees
PiUnits == 12

\* fast_sine and fast_cos return numerators over SineScale
SineScale == 40 * 144

\* the domain check of fast_sine: outside it the program panics
FastSinePanics(x) == ~(-PiUnits <= x /\ x <= PiUnits)

\* fast_sine(x), x in angle units.  With x = t*PI/12:
\*   y = B*x + C*x*|x| = (12*t - t*|t|) / 36             (B = 4/PI, C = -4/PI^2)
\*   P*(y*|y| - y) + y, P = 0.225 = 1296/5760, times 5760:
\*   (y36*|y36| - 36*y36) + 160*y36                      (y36 = 36*y)
FastSine(x) ==
  LET y == PiUnits * x - x * Abs(x)
  IN  (y * Abs(y) - 36 * y) + 160 * y

RECURSIVE WrapAngle(_)
\* while x > PI { x -= 2.0 * PI }
WrapAngle(x) == IF x > PiUnits THEN WrapAngle(x - 2 * PiUnits) ELSE x

\* fast_cos(x)
FastCos(x) == FastSine(WrapAngle(x + PiUnits \div 2))

\* p.0[d]
Coord(p, d) == p[d + 1]

\* distance_spherical_fast(p1, p2), times SineScale^2
DistanceSphericalFast(p1, p2) ==
  LET v1 == (Coord(p1, 1) - Coord(p2, 1)) * SineScale
      v2 == (Coord(p1, 0) - Coord(p2, 0)) * FastCos((Coord(p1, 1) + Coord(p2, 1)) \div 2)
  IN  v1 * v1 + v2 * v2

(***************************************************************************)
(* point.rs                                                                *)
(***************************************************************************)
\* Point::sq_dist
SqDist(a, b) == DistanceSphericalFast(a, b)

\* points[id]
PointAt(points, id) == points[id + 1]

\* Point([180.0, 90.0]) and Point([-180.0, -90.0]), in units of 15 degrees
MinStart == <<12, 6>>

MaxStart == <<-12, -6>>

\* if pt.0[j] < min.0[j] { min.0[j] = pt.0[j] }
Lower(pt, min, d) == IF Coord(pt, d) < Coord(min, d) THEN Coord(pt, d) ELSE Coord(min, d)

\* if pt.0[j] > max.0[j] { max.0[j] = pt.0[j] }
Higher(pt, max, d) == IF Coord(pt, d) > Coord(max, d) THEN Coord(pt, d) ELSE Coord(max, d)

RECURSIVE BoundsFrom(_, _, _, _)
\* for &i in &self.points { ... }, from position k; acc holds center, min and max
BoundsFrom(points, ids, k, acc) ==
  IF k >= Len(ids) THEN acc
  ELSE LET pt == PointAt(points, At(ids, k))
       IN  BoundsFrom(points, ids, k + 1,
             [center |-> <<Coord(acc.center, 0) + Coord(pt, 0),
                           Coord(acc.center, 1) + Coord(pt, 1)>>,
              min    |-> <<Lower(pt, acc.min, 0), Lower(pt, acc.min, 1)>>,
              max    |-> <<Higher(pt, acc.max, 0), Higher(pt, acc.max, 1)>>])

\* Cluster::centroid_and_bounds on a non-empty cluster; the centre is the pair of
\* coordinate sums over the member count
CentroidAndBounds(cl, points) ==
  LET acc == BoundsFrom(points, cl.points, 0,
               [center |-> <<0, 0>>, min |-> MinStart, max |-> MaxStart])
  IN  [center |-> [sum |-> acc.center, over |-> Len(cl.points)],
       min    |-> acc.min,
       max    |-> acc.max]

(***************************************************************************)
(* kdtree.rs: construction                                                 *)
(***************************************************************************)
None == <<>>

Some(x) == <<x>>

\* the comparator of pre_sort on dimension i: a sorts strictly before b
SortsBefore(points, i, a, b) ==
  LET a_val == Coord(PointAt(points, a), i)
      b_val == Coord(PointAt(points, b), i)
  IN  IF a_val = b_val
        THEN Coord(PointAt(points, a), 1 - i) < Coord(PointAt(points, b), 1 - i)
        ELSE a_val < b_val

RECURSIVE InsertSorted(_, _, _, _)
\* stable insertion: a goes after every element that does not sort after it
InsertSorted(points, i, s, a) ==
  IF s = <<>> THEN <<a>>
  ELSE IF SortsBefore(points, i, a, Head(s)) THEN <<a>> \o s
  ELSE <<Head(s)>> \o InsertSorted(points, i, Tail(s), a)

RECURSIVE SortIds(_, _, _)
\* (0..n).collect() sorted by the comparator; sort_by is stable
SortIds(points, i, n) ==
  IF n = 0 THEN <<>>
  ELSE InsertSorted(points, i, SortIds(points, i, n - 1), n - 1)

\* pre_sort: cur[0], cur[1]
PreSort(points) == <<SortIds(points, 0, Len(points)), SortIds(points, 1, Len(points))>>

RECURSIVE MedLow(_, _, _, _)
\* while m > 0 && points[cur[m-1]][dim] == points[cur[m]][dim] { m -= 1 }
MedLow(points, c, dim, m) ==
  IF m > 0 /\ Coord(PointAt(points, At(c, m - 1)), dim) = Coord(PointAt(points, At(c, m)), dim)
    THEN MedLow(points, c, dim, m - 1)
    ELSE m

RECURSIVE MedHighOnDim(_, _, _, _)
\* MedHigh comparing only the first coordinate, where the code compares whole points
MedHighOnDim(points, c, m, mh) ==
  IF mh < Len(c) - 1 /\ Coord(PointAt(points, At(c, mh + 1)), 0) = Coord(PointAt(points, At(c, m)), 0)
    THEN MedHighOnDim(points, c, m, mh + 1)
    ELSE mh

RECURSIVE MedHigh(_, _, _, _)
\* while mh < len - 1 && points[cur[mh+1]] == points[cur[m]] { mh += 1 }
MedHigh(points, c, m, mh) ==
  IF mh < Len(c) - 1 /\ PointAt(points, At(c, mh + 1)) = PointAt(points, At(c, m))
    THEN MedHigh(points, c, m, mh + 1)
    ELSE mh

\* the side of the pivot a remaining id goes to, on the other dimension's order
GoesLeft(points, n, dim, pivot) == Coord(PointAt(points, n), dim) < pivot

\* SplitMed without the skip of the bucket (lines 260-269) in the other dimension's order
SplitMedKeepsEqual(points, cur, dim) ==
  LET c     == At(cur, dim)
      m     == MedLow(points, c, dim, Len(c) \div 2)
      mh    == MedHigh(points, c, m, m)
      med   == At(c, m)
      pivot == Coord(PointAt(points, med), dim)
      d     == 1 - dim
      InL(n)   == n # med /\ GoesLeft(points, n, dim, pivot)
      InR(n)   == n # med /\ ~GoesLeft(points, n, dim, pivot)
      leftDim  == SubSeq(c, 1, m)
      rightDim == SubSeq(c, mh + 2, Len(c))
      leftD    == SelectSeq(At(cur, d), InL)
      rightD   == SelectSeq(At(cur, d), InR)
  IN  [med   |-> med,
       equal |-> SubSeq(c, m + 2, mh + 1),
       left  |-> IF dim = 0 THEN <<leftDim, leftD>> ELSE <<leftD, leftDim>>,
       right |-> IF dim = 0 THEN <<rightDim, rightD>> ELSE <<rightD, rightDim>>]

\* PreSorted::split_med
SplitMed(points, cur, dim) ==
  LET c     == At(cur, dim)
      m     == MedLow(points, c, dim, Len(c) \div 2)
      mh    == MedHigh(points, c, m, m)
      med   == At(c, m)
      equal == SubSeq(c, m + 2, mh + 1)
      pivot == Coord(PointAt(points, med), dim)
      d     == 1 - dim
      Kept(n)  == n # med /\ ~Contains(equal, n)
      InL(n)   == Kept(n) /\ GoesLeft(points, n, dim, pivot)
      InR(n)   == Kept(n) /\ ~GoesLeft(points, n, dim, pivot)
      leftDim  == SubSeq(c, 1, m)
      rightDim == SubSeq(c, mh + 2, Len(c))
      leftD    == SelectSeq(At(cur, d), InL)
      rightD   == SelectSeq(At(cur, d), InR)
  IN  [med   |-> med,
       equal |-> equal,
       left  |-> IF dim = 0 THEN <<leftDim, leftD>> ELSE <<leftD, leftDim>>,
       right |-> IF dim = 0 THEN <<rightDim, rightD>> ELSE <<rightD, rightDim>>]

RECURSIVE BuildTree(_, _, _)
\* build_tree
BuildTree(points, depth, nodes) ==
  LET split == depth % 2
  IN  IF Len(At(nodes, split)) = 0 THEN None
      ELSE IF Len(At(nodes, split)) = 1
        THEN Some([point_id |-> At(At(nodes, split), 0), equal_ids |-> <<>>,
                   split |-> split, left |-> None, right |-> None])
      ELSE LET sm == SplitMed(points, nodes, split)
           IN  Some([point_id |-> sm.med, equal_ids |-> sm.equal, split |-> split,
                     left  |-> BuildTree(points, depth + 1, sm.left),
                     right |-> BuildTree(points, depth + 1, sm.right)])

\* new_kd_tree
NewKDTree(points) ==
  [points |-> points,
   root   |-> IF Len(points) # 0 THEN BuildTree(points, 0, PreSort(points)) ELSE None]

(***************************************************************************)
(* kdtree.rs: insert                                                       *)
(***************************************************************************)
\* InsertsLeft with <= where the code has <
InsertsLeftOrEqual(points, n, t_node) ==
  Coord(PointAt(points, n.point_id), t_node.split)
    <= Coord(PointAt(points, t_node.point_id), t_node.split)

\* if self.points[n.point_id].0[t_node.split] < self.points[t_node.point_id].0[t_node.split]
InsertsLeft(points, n, t_node) ==
  Coord(PointAt(points, n.point_id), t_node.split)
    < Coord(PointAt(points, t_node.point_id), t_node.split)

RECURSIVE InsertNode(_, _, _, _)
\* KDTree::insert_node
InsertNode(points, t, depth, n) ==
  IF t = None THEN [n EXCEPT !.split = depth % 2]
  ELSE LET t_node == t[1]
       IN  IF InsertsLeft(points, n, t_node)
             THEN [t_node EXCEPT !.left = Some(InsertNode(points, t_node.left, depth + 1, n))]
             ELSE [t_node EXCEPT !.right = Some(InsertNode(points, t_node.right, depth + 1, n))]

\* KDTree::insert
Insert(tree, point) ==
  LET pts      == Append(tree.points, point)
      new_node == [point_id |-> Len(pts) - 1, equal_ids |-> <<>>, split |-> 0,
                   left |-> None, right |-> None]
  IN  [points |-> pts, root |-> Some(InsertNode(pts, tree.root, 0, new_node))]

(***************************************************************************)
(* kdtree.rs: range query                                                  *)
(***************************************************************************)
\* the two points on the splitting line the pruning bound is measured between
PlanePoint(pt, np, split, onSplit) ==
  LET mid == (Coord(pt, 1 - split) + Coord(np, 1 - split)) \div 2
  IN  IF split = 0 THEN <<onSplit, mid>> ELSE <<mid, onSplit>>

\* dist = p1.sq_dist(&p2)
PlaneDist(pt, np, split) ==
  SqDist(PlanePoint(pt, np, split, Coord(pt, split)),
         PlanePoint(pt, np, split, Coord(np, split)))

\* if dist <= r * r
CrossesPlane(dist, r) == dist <= r * r

\* if self.points[t.point_id].sq_dist(pt) < r * r
InsideRadius(d, r) == d < r * r

RECURSIVE InRangeRecursive(_, _, _, _, _)
\* KDTree::in_range_recursive
InRangeRecursive(points, t, pt, r, nodes) ==
  IF t = None THEN nodes
  ELSE
    LET n          == t[1]
        np         == PointAt(points, n.point_id)
        diff       == Coord(pt, n.split) - Coord(np, n.split)
        this_side  == IF diff < 0 THEN n.left ELSE n.right
        other_side == IF diff < 0 THEN n.right ELSE n.left
        dist       == PlaneDist(pt, np, n.split)
        nodes1     == InRangeRecursive(points, this_side, pt, r, nodes)
    IN  IF CrossesPlane(dist, r)
          THEN LET nodes2 == IF InsideRadius(SqDist(np, pt), r)
                               THEN Append(nodes1, n.point_id) \o n.equal_ids
                               ELSE nodes1
               IN  InRangeRecursive(points, other_side, pt, r, nodes2)
          ELSE nodes1

\* KDTree::in_range
InRange(tree, pt, dist, nodes) ==
  IF dist < 0 THEN nodes
  ELSE InRangeRecursive(tree.points, tree.root, pt, dist, nodes)

(***************************************************************************)
(* dbscan.rs: brute-force neighbourhood                                    *)
(***************************************************************************)
RECURSIVE RegionScan(_, _, _, _)
\* the loop of region_query over points[i..]
RegionScan(points, p, eps, i) ==
  IF i >= Len(points) THEN <<>>
  ELSE (IF SqDist(PointAt(points, i), p) < eps * eps THEN <<i>> ELSE <<>>)
       \o RegionScan(points, p, eps, i + 1)

\* region_query
RegionQuery(points, p, eps) == RegionScan(points, p, eps, 0)

(***************************************************************************)
(* dbscan.rs: helpers of db_scan                                           *)
(***************************************************************************)
RECURSIVE MarkAll(_, _, _)
\* for &j in &neighbor_pts { neighbor_unique.set(j, true) }, from position k
MarkAll(unique, ids, k) ==
  IF k >= Len(ids) THEN unique
  ELSE MarkAll(SetAt(unique, At(ids, k), TRUE), ids, k + 1)

RECURSIVE PushUnmarkedNoSet(_, _, _, _)
\* PushUnmarked without neighbor_unique.set(p, true)
PushUnmarkedNoSet(pts, unique, more, k) ==
  IF k >= Len(more) THEN [pts |-> pts, unique |-> unique]
  ELSE LET p == At(more, k)
       IN  IF ~At(unique, p)
             THEN PushUnmarkedNoSet(Append(pts, p), unique, more, k + 1)
             ELSE PushUnmarkedNoSet(pts, unique, more, k + 1)

RECURSIVE PushUnmarked(_, _, _, _)
\* for &p in &more_neighbors { if !neighbor_unique[p] { push; set } }, from position k
PushUnmarked(pts, unique, more, k) ==
  IF k >= Len(more) THEN [pts |-> pts, unique |-> unique]
  ELSE LET p == At(more, k)
       IN  IF ~At(unique, p)
             THEN PushUnmarked(Append(pts, p), SetAt(unique, p, TRUE), more, k + 1)
             ELSE PushUnmarked(pts, unique, more, k + 1)

\* Expanded without the density test: every visited point grows the frontier
ExpandedAlways(pts, unique, more, minPts) == PushUnmarked(pts, unique, more, 0)

\* Expanded that leaves the frontier alone: no visited point grows it
ExpandedNever(pts, unique, more, minPts) == [pts |-> pts, unique |-> unique]

\* Expanded with > where the code has >=
ExpandedStrict(pts, unique, more, minPts) ==
  IF Len(more) > minPts
    THEN PushUnmarked(pts, unique, more, 0)
    ELSE [pts |-> pts, unique |-> unique]

\* if more_neighbors.len() >= min_points { ... }: the frontier after visiting k
Expanded(pts, unique, more, minPts) ==
  IF Len(more) >= minPts
    THEN PushUnmarked(pts, unique, more, 0)
    ELSE [pts |-> pts, unique |-> unique]

\* JoinCluster with the test inverted
JoinClusterInverted(cl, isMember, k) ==
  IF isMember THEN [cl EXCEPT !.points = Append(@, k)] ELSE cl

\* JoinCluster without the members guard
JoinClusterUnguarded(cl, isMember, k) == [cl EXCEPT !.points = Append(@, k)]

\* if !members[k] { cluster.points.push(k) }
JoinCluster(cl, isMember, k) ==
  IF ~isMember THEN [cl EXCEPT !.points = Append(@, k)] ELSE cl

\* Unvisited without the check: every point met is queried again
AlwaysUnvisited(flags, k) == TRUE

\* if visited[i] { continue } / if !visited[k]: the flag that guards each range query
Unvisited(flags, k) == ~At(flags, k)

\* NewCluster that numbers every cluster 0, where the code takes the counter c
NewClusterUnnumbered(cid, seed) == [c |-> 0, points |-> <<seed>>]

\* NewCluster that leaves the seed out
NewClusterEmpty(cid, seed) == [c |-> cid, points |-> <<>>]

\* Cluster { c, points: vec![i] }
NewCluster(cid, seed) == [c |-> cid, points |-> <<seed>>]

\* NoiseAfterJoin that also records the index the drain just handled
NoiseWithAbsorbed(noiseIds, k) == Append(noiseIds, k)

\* NoiseAfterJoin that takes an absorbed index out of the noise list
NoiseRevised(noiseIds, k) ==
  LET Other(x) == x # k
  IN  SelectSeq(noiseIds, Other)

\* lines 98-101 add k to the cluster and do not touch noise
NoiseAfterJoin(noiseIds, k) == noiseIds

(***************************************************************************)
(* main.rs: labels and filter                                              *)
(***************************************************************************)
DBSCAN_OUTLIER_INDEX == -1

RECURSIVE LabelPoints(_, _, _, _)
\* for &idx in &cluster.points { labels[idx] = cluster.c as i32 }, from position k
LabelPoints(lab, ids, cid, k) ==
  IF k >= Len(ids) THEN lab
  ELSE LabelPoints(SetAt(lab, At(ids, k), cid), ids, cid, k + 1)

RECURSIVE LabelClusters(_, _, _)
\* for cluster in clusters { ... }, from position k
LabelClusters(lab, cls, k) ==
  IF k >= Len(cls) THEN lab
  ELSE LabelClusters(LabelPoints(lab, At(cls, k).points, At(cls, k).c, 0), cls, k + 1)

\* build_labels
BuildLabels(cls, noiseIds, num_points) ==
  LabelClusters(Repeat(DBSCAN_OUTLIER_INDEX, num_points), cls, 0)

\* the three "keep" tests of filter_points for a point not yet added
Keeps(lab, idx) ==
  \/ At(lab, idx) = DBSCAN_OUTLIER_INDEX
  \/ idx = 0
  \/ At(lab, idx) # At(lab, idx - 1)

RECURSIVE FilterFrom(_, _, _, _, _)
\* the loop of filter_points from idx on
FilterFrom(pts, lab, idx, kept, added) ==
  IF idx >= Len(lab) THEN kept
  ELSE LET point == PointAt(pts, idx)
       IN  IF Contains(added, point) THEN FilterFrom(pts, lab, idx + 1, kept, added)
           ELSE IF Keeps(lab, idx)
             THEN FilterFrom(pts, lab, idx + 1, Append(kept, idx), Append(added, point))
             ELSE FilterFrom(pts, lab, idx + 1, kept, added)

\* filter_points
FilterPoints(pts, lab) == FilterFrom(pts, lab, 0, <<>>, <<>>)

(***************************************************************************)
(* Inputs                                                                  *)
(***************************************************************************)
\* coordinates 0 and 60 degrees on both axes
Grid == {<<lon, lat>> : lon \in {0, 4}, lat \in {0, 4}}

\* every point list of at most MaxPoints grid points
GridLists == UNION {[1..n -> Grid] : n \in 0..MaxPoints}

\* six points, 30 degrees apart, in an L: two dense arms that share border points
SharedBorderLayout == <<<<0, 0>>, <<0, 2>>, <<0, 4>>, <<2, 0>>, <<2, 2>>, <<4, 0>>>>

Rotation(s, k) == [n \in 1..Len(s) |-> s[((n - 1 + k) % Len(s)) + 1]]

\* four points in a row on the equator, 30 degrees apart
ChainLayout == <<<<0, 0>>, <<2, 0>>, <<4, 0>>, <<6, 0>>>>

Rotations(s) == {Rotation(s, k) : k \in 0..(Len(s) - 1)}

\* each layout, started from each of its points in turn
LayoutLists == Rotations(SharedBorderLayout) \cup Rotations(ChainLayout)

\* a radius of 2.25 units of 15 degrees, over SineScale
RadiusStep == (9 * SineScale) \div 4

Radii == {k * RadiusStep : k \in -1..MaxRadius}

(***************************************************************************)
(* State                                                                   *)
(***************************************************************************)
VARIABLES
  points,          \* the input point list
  eps,             \* the radius of line 57, after the division by EARTH_R * DEGREE_RAD
  min_points,      \* density threshold
  pc,              \* "start", "scan" (outer for), "drain" (inner while), "done", "filtered"
  kd_tree,         \* the tree of line 53
  visited, members, clusters, noise, c, neighbor_unique,
  i,               \* the outer loop index
  neighbor_pts, j, cluster,    \* the frontier, its cursor and the cluster being grown
  queries,         \* queries[k+1]: the number of in_range calls made for point k
  labels, filtered,  \* main.rs: build_labels and filter_points of the result
  angle,           \* the argument x of a direct call of fast_cos
  ret              \* what a direct call of a library function returned, None before

vars == <<points, eps, min_points, pc, kd_tree, visited, members, clusters, noise, c,
          neighbor_unique, i, neighbor_pts, j, cluster, queries, labels, filtered,
          angle, ret>>

input == <<points, eps, min_points>>

\* the state of the direct library calls, which db_scan and main do not make
lib == <<angle, ret>>

NoCluster == [c |-> 0, points |-> <<>>]

\* db_scan is entered with a point list, a radius and a threshold
Init ==
  /\ points \in GridLists \cup LayoutLists
  /\ eps \in Radii
  /\ min_points \in 1..MaxMinPoints
  /\ pc = "start"
  /\ kd_tree = [points |-> <<>>, root |-> None]
  /\ visited = <<>> /\ members = <<>> /\ neighbor_unique = <<>>
  /\ clusters = <<>> /\ noise = <<>> /\ c = 0 /\ i = 0
  /\ neighbor_pts = <<>> /\ j = 0 /\ cluster = NoCluster
  /\ queries = <<>> /\ labels = <<>> /\ filtered = <<>>
  /\ angle = 0 /\ ret = None

\* lines 47-59: the flags, the tree, the converted radius
Start ==
  /\ pc = "start"
  /\ visited' = Repeat(FALSE, Len(points))
  /\ members' = Repeat(FALSE, Len(points))
  /\ neighbor_unique' = Repeat(FALSE, Len(points))
  /\ queries' = Repeat(0, Len(points))
  /\ clusters' = <<>> /\ noise' = <<>> /\ c' = 0 /\ i' = 0
  /\ kd_tree' = NewKDTree(points)
  /\ pc' = "scan"
  /\ UNCHANGED <<input, lib, neighbor_pts, j, cluster, labels, filtered>>

\* kd_tree.in_range(&points[k], eps, Vec::new())
Neighbours(k) == InRange(kd_tree, PointAt(points, k), eps, <<>>)

\* lines 62-64: if visited[i] { continue }
ScanSkip ==
  /\ pc = "scan" /\ i < Len(points)
  /\ ~Unvisited(visited, i)
  /\ i' = i + 1
  /\ UNCHANGED <<input, lib, pc, kd_tree, visited, members, clusters, noise, c, neighbor_unique,
                 neighbor_pts, j, cluster, queries, labels, filtered>>

\* lines 65-69: an unvisited point with fewer than min_points neighbours
ScanNoise ==
  /\ pc = "scan" /\ i < Len(points)
  /\ Unvisited(visited, i)
  /\ Len(Neighbours(i)) < min_points
  /\ visited' = SetAt(visited, i, TRUE)
  /\ queries' = SetAt(queries, i, At(queries, i) + 1)
  /\ noise' = Append(noise, i)
  /\ i' = i + 1
  /\ UNCHANGED <<input, lib, pc, kd_tree, members, clusters, c, neighbor_unique,
                 neighbor_pts, j, cluster, labels, filtered>>

\* lines 65-81: an unvisited point with at least min_points neighbours seeds a cluster
ScanSeed ==
  /\ pc = "scan" /\ i < Len(points)
  /\ Unvisited(visited, i)
  /\ Len(Neighbours(i)) >= min_points
  /\ visited' = SetAt(visited, i, TRUE)
  /\ queries' = SetAt(queries, i, At(queries, i) + 1)
  /\ cluster' = NewCluster(c, i)
  /\ members' = SetAt(members, i, TRUE)
  /\ c' = c + 1
  /\ neighbor_unique' = MarkAll(Repeat(FALSE, Len(points)), Neighbours(i), 0)
  /\ neighbor_pts' = Neighbours(i)
  /\ j' = 0
  /\ pc' = "drain"
  /\ UNCHANGED <<input, lib, kd_tree, clusters, noise, i, labels, filtered>>

\* lines 83-103: one iteration of the while loop
Drain ==
  /\ pc = "drain" /\ j < Len(neighbor_pts)
  /\ LET k == At(neighbor_pts, j)
     IN  /\ IF Unvisited(visited, k)
              THEN LET e == Expanded(neighbor_pts, neighbor_unique, Neighbours(k), min_points)
                   IN  /\ visited' = SetAt(visited, k, TRUE)
                       /\ queries' = SetAt(queries, k, At(queries, k) + 1)
                       /\ neighbor_pts' = e.pts
                       /\ neighbor_unique' = e.unique
              ELSE UNCHANGED <<visited, queries, neighbor_pts, neighbor_unique>>
         /\ cluster' = JoinCluster(cluster, At(members, k), k)
         /\ members' = SetAt(members, k, TRUE)
         /\ noise' = NoiseAfterJoin(noise, k)
  /\ j' = j + 1
  /\ UNCHANGED <<input, lib, pc, kd_tree, clusters, c, i, labels, filtered>>

\* line 104 and the step of the for loop: the frontier is drained
DrainEnd ==
  /\ pc = "drain" /\ j >= Len(neighbor_pts)
  /\ clusters' = Append(clusters, cluster)
  /\ i' = i + 1
  /\ pc' = "scan"
  /\ UNCHANGED <<input, lib, kd_tree, visited, members, noise, c, neighbor_unique,
                 neighbor_pts, j, cluster, queries, labels, filtered>>

\* line 108: (clusters, noise)
Return ==
  /\ pc = "scan" /\ i >= Len(points)
  /\ pc' = "done"
  /\ UNCHANGED <<input, lib, kd_tree, visited, members, clusters, noise, c, neighbor_unique, i,
                 neighbor_pts, j, cluster, queries, labels, filtered>>

\* main.rs 73-83: labels and the filtered indices of the result
Filter ==
  /\ pc = "done"
  /\ labels' = BuildLabels(clusters, noise, Len(points))
  /\ filtered' = FilterPoints(points, BuildLabels(clusters, noise, Len(points)))
  /\ pc' = "filtered"
  /\ UNCHANGED <<input, lib, kd_tree, visited, members, clusters, noise, c, neighbor_unique, i,
                 neighbor_pts, j, cluster, queries>>

Next ==
  \/ Start
  \/ ScanSkip
  \/ ScanNoise
  \/ ScanSeed
  \/ Drain
  \/ DrainEnd
  \/ Return
  \/ Filter

Spec == Init /\ [][Next]_vars

(***************************************************************************)
(* dbscan.rs: the loops of db_scan as sequential code that keeps running   *)
(***************************************************************************)
\* two coincident points and a third one 30 degrees east of them
TwinLayout == <<<<0, 0>>, <<0, 0>>, <<2, 0>>>>

\* three points in a row on the equator, 30 degrees apart
ShortChainLayout == <<<<0, 0>>, <<2, 0>>, <<4, 0>>>>

\* the twins and the row of three, started from each of their points in turn, and the
\* row of four
LoopLists == Rotations(TwinLayout) \cup Rotations(ShortChainLayout) \cup {ChainLayout}

\* the state at line 61: the flags, the tree and the radius are set up
LoopInit ==
  /\ points \in LoopLists
  /\ eps \in Radii
  /\ min_points \in 1..MaxMinPoints
  /\ pc = "scan"
  /\ kd_tree = NewKDTree(points)
  /\ visited = Repeat(FALSE, Len(points))
  /\ members = Repeat(FALSE, Len(points))
  /\ neighbor_unique = Repeat(FALSE, Len(points))
  /\ queries = Repeat(0, Len(points))
  /\ clusters = <<>> /\ noise = <<>> /\ c = 0 /\ i = 0
  /\ neighbor_pts = <<>> /\ j = 0 /\ cluster = NoCluster
  /\ labels = <<>> /\ filtered = <<>>
  /\ angle = 0 /\ ret = None

\* lines 61-108
LoopNext ==
  \/ ScanSkip
  \/ ScanNoise
  \/ ScanSeed
  \/ Drain
  \/ DrainEnd
  \/ Return

\* a step of the loops that can be taken is taken
LoopSpec == LoopInit /\ [][LoopNext]_vars /\ WF_vars(LoopNext)

(***************************************************************************)
(* Direct calls of the library functions (the public API of the crate)     *)
(***************************************************************************)
\* the locals of db_scan and the results of main
scan == <<kd_tree, visited, members, clusters, noise, c, neighbor_unique, i,
          neighbor_pts, j, queries, labels, filtered>>

\* no db_scan is running
ScanIdle ==
  /\ kd_tree = [points |-> <<>>, root |-> None]
  /\ visited = <<>> /\ members = <<>> /\ neighbor_unique = <<>>
  /\ clusters = <<>> /\ noise = <<>> /\ c = 0 /\ i = 0
  /\ neighbor_pts = <<>> /\ j = 0
  /\ queries = <<>> /\ labels = <<>> /\ filtered = <<>>

(***************************************************************************)
(* distance.rs: fast_cos(x) called directly                                *)
(***************************************************************************)
\* every multiple of 15 degrees from -MaxAngle to MaxAngle
Angles == -MaxAngle..MaxAngle

CosInit ==
  /\ angle \in Angles
  /\ pc = "fast_cos" /\ ret = None
  /\ points = <<>> /\ eps = 0 /\ min_points = 1 /\ cluster = NoCluster
  /\ ScanIdle

\* fast_cos, lines 52-59: x + PI/2 is wrapped and handed to fast_sine, which panics
\* outside [-PI, PI] and returns the parabola value inside
FastCosCall ==
  /\ pc = "fast_cos"
  /\ LET sine_x == WrapAngle(angle + PiUnits \div 2)
     IN  IF FastSinePanics(sine_x)
           THEN /\ pc' = "panicked"
                /\ ret' = [sine_x |-> sine_x, panic |-> "out of range"]
           ELSE /\ pc' = "returned"
                /\ ret' = [sine_x |-> sine_x, value |-> FastCos(angle)]
  /\ UNCHANGED <<input, angle, cluster, scan>>

CosNext == FastCosCall

CosSpec == CosInit /\ [][CosNext]_vars

(***************************************************************************)
(* point.rs: centroid_and_bounds(cluster, points) called directly          *)
(***************************************************************************)
\* longitudes -210, 0, 210 and latitudes -120, 0, 120 degrees
BoxGrid == {<<lon, lat>> : lon \in {-14, 0, 14}, lat \in {-8, 0, 8}}

\* the point lists of 1 .. MaxBoxPoints points
BoxLists == UNION {[1..n -> BoxGrid] : n \in 1..MaxBoxPoints}

\* the member lists of at most MaxBoxPoints valid indices, repeats and the empty list included
MemberLists(n) == UNION {[1..m -> 0..(n - 1)] : m \in 0..MaxBoxPoints}

BoundsInit ==
  /\ points \in BoxLists
  /\ \E ids \in MemberLists(Len(points)) : cluster = [c |-> 0, points |-> ids]
  /\ pc = "centroid_and_bounds" /\ ret = None
  /\ eps = 0 /\ min_points = 1 /\ angle = 0
  /\ ScanIdle

\* centroid_and_bounds, lines 57-86: panics on an empty cluster, else returns
\* (center, min, max)
CentroidCall ==
  /\ pc = "centroid_and_bounds"
  /\ IF cluster.points = <<>>
       THEN pc' = "panicked" /\ ret' = None
       ELSE pc' = "returned" /\ ret' = Some(CentroidAndBounds(cluster, points))
  /\ UNCHANGED <<input, angle, cluster, scan>>

BoundsNext == CentroidCall

BoundsSpec == BoundsInit /\ [][BoundsNext]_vars

(***************************************************************************)
(* kdtree.rs: new_kd_tree(points) followed by insert calls                 *)
(***************************************************************************)
\* longitudes 0, 30, 60 and latitudes 0, 60 degrees
TreeGrid == {<<lon, lat>> : lon \in {0, 2, 4}, lat \in {0, 4}}

\* the point lists of at most MaxTreePoints points, and the two layouts
TreeLists == UNION {[1..n -> TreeGrid] : n \in 0..MaxTreePoints} \cup LayoutLists

TreeInit ==
  /\ points \in TreeLists
  /\ pc = "new_kd_tree" /\ ret = None
  /\ eps = 0 /\ min_points = 1 /\ angle = 0 /\ cluster = NoCluster
  /\ ScanIdle

\* new_kd_tree(points.clone())
TreeBuild ==
  /\ pc = "new_kd_tree"
  /\ kd_tree' = NewKDTree(points)
  /\ pc' = "tree"
  /\ UNCHANGED <<input, lib, cluster, visited, members, clusters, noise, c, neighbor_unique,
                 i, neighbor_pts, j, queries, labels, filtered>>

\* kd_tree.insert(point)
TreeInsert ==
  /\ pc = "tree"
  /\ Len(kd_tree.points) < Len(points) + MaxInserts
  /\ \E point \in TreeGrid : kd_tree' = Insert(kd_tree, point)
  /\ UNCHANGED <<input, lib, pc, cluster, visited, members, clusters, noise, c,
                 neighbor_unique, i, neighbor_pts, j, queries, labels, filtered>>

TreeNext ==
  \/ TreeBuild
  \/ TreeInsert

TreeSpec == TreeInit /\ [][TreeNext]_vars

(***************************************************************************)
(* Vocabulary of the properties                                            *)
(***************************************************************************)
Ids == 0..(Len(points) - 1)

Started == pc # "start"

Returned == pc \in {"done", "filtered"}

RECURSIVE SortedIds(_)
\* pts.sort() of the test: ascending, repeats kept
SortedIds(s) ==
  IF s = <<>> THEN <<>>
  ELSE LET m == CHOOSE k \in 1..Len(s) : \A l \in 1..Len(s) : s[k] <= s[l]
       IN  <<s[m]>> \o SortedIds(SubSeq(s, 1, m - 1) \o SubSeq(s, m + 1, Len(s)))

\* the brute-force eps-neighbourhood N(k)
Near(k) == ToSet(RegionQuery(points, PointAt(points, k), eps))

\* every range query of this run returns exactly the brute-force neighbourhood
QueriesExact ==
  \A k \in Ids : SortedIds(Neighbours(k)) = RegionQuery(points, PointAt(points, k), eps)

IsCore(k) == Cardinality(Near(k)) >= min_points

\* the clusters found so far, the one being grown included
ClustersSoFar == IF pc = "drain" THEN Append(clusters, cluster) ELSE clusters

RECURSIVE Flatten(_)
\* the concatenation of the member lists
Flatten(cls) == IF cls = <<>> THEN <<>> ELSE Head(cls).points \o Flatten(Tail(cls))

AllMembers == Flatten(ClustersSoFar)

NoRepeats(s) == \A a, b \in 1..Len(s) : s[a] = s[b] => a = b

IsPrefix(s, t) == Len(s) <= Len(t) /\ SubSeq(t, 1, Len(s)) = s

InSomeCluster(k) == \E n \in 1..Len(clusters) : Contains(clusters[n].points, k)

(***************************************************************************)
(* C1.  For every point list, every query point of the list and every      *)
(* radius >= 0, in_range on the tree of new_kd_tree returns, after         *)
(* sorting, exactly what the brute-force region_query returns.             *)
(* Refuted by the code: the bound that prunes the far side of a longitude  *)
(* split is measured at the mean latitude of the query and the node, and   *)
(* a point of the far side at a higher latitude can be nearer than that.   *)
(***************************************************************************)
C1_RangeQueryEquivalence ==
  (Started /\ eps >= 0) =>
    \A k \in Ids :
      SortedIds(InRange(kd_tree, PointAt(points, k), eps, <<>>))
        = RegionQuery(points, PointAt(points, k), eps)

(***************************************************************************)
(* C2.  When db_scan returns, every point index is in the noise list or    *)
(* in the member list of at least one returned cluster.                    *)
(***************************************************************************)
C2_Coverage ==
  Returned => \A k \in Ids : Contains(noise, k) \/ InSomeCluster(k)

\* a run that returned both clusters and noise over a full-length list
C2_Witness ==
  /\ pc = "done" /\ Len(points) >= MaxPoints
  /\ clusters # <<>> /\ noise # <<>>
  /\ \E k \in Ids : ~Contains(noise, k)

(***************************************************************************)
(* C3.  At every step of db_scan and in its result each point index        *)
(* occurs at most once in the concatenation of all clusters' member lists, *)
(* and the concatenation only grows at its end (no member is removed).     *)
(***************************************************************************)
C3_Exclusive == NoRepeats(AllMembers)

C3_MembersKept == IsPrefix(AllMembers, AllMembers')

C3_ClusterExclusivity == [](C3_Exclusive) /\ [][C3_MembersKept]_vars

\* the drain meets an index that an earlier cluster already holds
C3_Witness ==
  /\ pc = "drain" /\ j < Len(neighbor_pts)
  /\ InSomeCluster(At(neighbor_pts, j))
  /\ Len(cluster.points) >= 1

IsBorder(b) == ~IsCore(b) /\ \E p \in Near(b) : IsCore(p)

C5_BorderAbsorbed ==
  (Returned /\ QueriesExact) =>
    \A b \in Ids :
      IsBorder(b) =>
        \E n \in 1..Len(clusters) :
          /\ Contains(clusters[n].points, b)
          /\ \E p \in Near(b) : IsCore(p) /\ Contains(clusters[n].points, p)

\* exact queries, and a border point that the outer scan met (as noise) before its core
C5_Witness ==
  /\ pc = "done" /\ QueriesExact
  /\ \E b \in Ids : IsBorder(b) /\ Contains(noise, b) /\ InSomeCluster(b)
  /\ \E b \in Ids : IsBorder(b) /\ ~Contains(noise, b)

(***************************************************************************)
(* C6.  With labels = build_labels(clusters, noise, len) and               *)
(* filtered = filter_points(points, labels) of a db_scan result, every     *)
(* index of the noise list is in filtered.                                 *)
(* Refuted by the code: a noise index that a later cluster absorbed is     *)
(* labelled with that cluster, and an index whose coordinates were already *)
(* added is skipped.                                                       *)
(***************************************************************************)
C6_NoiseKept ==
  pc = "filtered" => \A k \in Ids : Contains(noise, k) => Contains(filtered, k)

(***************************************************************************)
(* C7.  With the same labels and filtered, the first member (the seed) of  *)
(* every returned cluster is in filtered.                                  *)
(* Refuted by the code: the seed is kept only if the index before it has   *)
(* another label, and an earlier noise index absorbed by the seed's        *)
(* cluster has the same one.                                               *)
(***************************************************************************)
C7_SeedKept ==
  pc = "filtered" =>
    \A n \in 1..Len(clusters) :
      clusters[n].points # <<>> => Contains(filtered, At(clusters[n].points, 0))

C10_Step ==
  \/ pc = "start"
  \/ \A k \in Ids :
       /\ At(visited, k) => At(visited', k)
       /\ At(queries', k) # At(queries, k) =>
            /\ ~At(visited, k) /\ At(visited', k)
            /\ At(queries', k) = At(queries, k) + 1
       /\ (~At(visited, k) /\ At(visited', k)) => At(queries', k) = At(queries, k) + 1

C10_AtReturn ==
  Returned => \A k \in Ids : At(visited, k) /\ At(queries, k) = 1

C10_VisitedOnce == [][C10_Step]_vars /\ [](C10_AtReturn)

\* a returned run with a point queried by the outer scan as noise, and a member that
\* the drain visited first, which the outer scan then skipped (it lies after its seed)
C10_Witness ==
  /\ pc = "done" /\ Len(points) >= 3
  /\ noise # <<>>
  /\ \E n \in 1..Len(clusters) :
       \E k \in ToSet(clusters[n].points) :
         k > At(clusters[n].points, 0) /\ ~Contains(noise, k)
  /\ \A k \in Ids : At(queries, k) = 1

(***************************************************************************)
(* C11.  In the cluster list of db_scan, at every step and in the result,  *)
(* the cluster at position k has id k: ids start at 0 and follow the order *)
(* of discovery without gaps or repeats; the counter c is the next id.     *)
(***************************************************************************)
C11_DenseIds ==
  Started =>
    /\ \A n \in 1..Len(ClustersSoFar) : ClustersSoFar[n].c = n - 1
    /\ c = Len(ClustersSoFar)

\* a result with at least two clusters, with a noise index scanned before the second
C11_Witness ==
  /\ pc = "done" /\ Len(clusters) >= 2
  /\ clusters[2].c = 1
  /\ \E k \in ToSet(noise) : k < At(clusters[2].points, 0)

(***************************************************************************)
(* C12.  The noise list of db_scan is strictly ascending in point index    *)
(* at every step and in the result, and each of its indices has been       *)
(* passed by the outer scan.                                               *)
(***************************************************************************)
C12_NoiseAscending ==
  Started =>
    /\ \A a, b \in 1..Len(noise) : a < b => noise[a] < noise[b]
    /\ \A a \in 1..Len(noise) : noise[a] < i \/ (pc = "drain" /\ noise[a] <= i)

\* a result with two noise indices, the first of them absorbed by a later cluster,
\* and a cluster scanned between them
C12_Witness ==
  /\ pc = "done" /\ Len(noise) >= 2
  /\ InSomeCluster(noise[1])
  /\ \E n \in 1..Len(clusters) :
       noise[1] < At(clusters[n].points, 0) /\ At(clusters[n].points, 0) < noise[Len(noise)]

(***************************************************************************)
(* C13.  For every input x, fast_cos(x) hands fast_sine an argument in     *)
(* [-PI, PI], so the call returns and never panics.                        *)
(* Refuted by the code: the loop of fast_cos only subtracts 2*PI while     *)
(* x > PI; an x below -3*PI/2 gives x + PI/2 < -PI, which is passed on     *)
(* unchanged and fast_sine panics.                                         *)
(***************************************************************************)
C13_FastCosInDomain ==
  pc \in {"returned", "panicked"} =>
    /\ pc = "returned"
    /\ -PiUnits <= ret.sine_x /\ ret.sine_x <= PiUnits

(***************************************************************************)
(* C14.  For every point list and every cluster with a non-empty member    *)
(* list of valid indices, centroid_and_bounds returns as min the per-axis  *)
(* minimum and as max the per-axis maximum of the member points: every     *)
(* member lies between them on both axes and each bound is the coordinate  *)
(* of some member.                                                         *)
(* Refuted by the code: min starts at (180, 90) and max at (-180, -90)     *)
(* and are only ever lowered / raised, so members that all lie beyond one  *)
(* of these corners leave that bound at the corner.                        *)
(***************************************************************************)
C14_BoundsAreMinMax ==
  (pc = "returned" /\ cluster.points # <<>>) =>
    LET b    == ret[1]
        mem  == {PointAt(points, k) : k \in ToSet(cluster.points)}
    IN  \A d \in {0, 1} :
          /\ \A p \in mem : Coord(b.min, d) <= Coord(p, d) /\ Coord(p, d) <= Coord(b.max, d)
          /\ \E p \in mem : Coord(p, d) = Coord(b.min, d)
          /\ \E p \in mem : Coord(p, d) = Coord(b.max, d)

(***************************************************************************)
(* C15.  In the tree of new_kd_tree and after every sequence of insert     *)
(* calls, every node N with split dimension s has in its left subtree      *)
(* only points whose s-coordinate is strictly less than that of N's point  *)
(* and in its right subtree only points whose s-coordinate is greater or   *)
(* equal; and the split dimension of a node is its depth modulo 2.         *)
(***************************************************************************)
RECURSIVE SubtreeIds(_)
\* every index stored in the subtree, as point_id or in an equal_ids bucket
SubtreeIds(t) ==
  IF t = None THEN {}
  ELSE {t[1].point_id} \cup ToSet(t[1].equal_ids)
         \cup SubtreeIds(t[1].left) \cup SubtreeIds(t[1].right)

RECURSIVE Ordered(_, _, _)
Ordered(pts, t, depth) ==
  \/ t = None
  \/ LET n == t[1]
         v == Coord(PointAt(pts, n.point_id), n.split)
     IN  /\ n.split = depth % 2
         /\ \A k \in SubtreeIds(n.left) : Coord(PointAt(pts, k), n.split) < v
         /\ \A k \in SubtreeIds(n.right) : Coord(PointAt(pts, k), n.split) >= v
         /\ Ordered(pts, n.left, depth + 1)
         /\ Ordered(pts, n.right, depth + 1)

C15_TreeOrdered == pc = "tree" => Ordered(kd_tree.points, kd_tree.root, 0)

RECURSIVE Height(_)
Height(t) == IF t = None THEN 0
             ELSE 1 + (IF Height(t[1].left) > Height(t[1].right)
                         THEN Height(t[1].left) ELSE Height(t[1].right))

\* a built tree with both subtrees and a bucket of equal points at the root, after two
\* inserts: one of a point already stored at the root, one that went left and deeper
C15_Witness ==
  /\ pc = "tree" /\ Len(points) >= 3
  /\ Len(kd_tree.points) = Len(points) + 2
  /\ kd_tree.root[1].equal_ids # <<>>
  /\ kd_tree.root[1].left # None /\ kd_tree.root[1].right # None
  /\ \E k \in SubtreeIds(kd_tree.root[1].right) :
       k >= Len(points) /\ PointAt(kd_tree.points, k) = PointAt(kd_tree.points, kd_tree.root[1].point_id)
  /\ \E k \in SubtreeIds(kd_tree.root[1].left) : k >= Len(points)
  /\ Height(kd_tree.root) >= 3

(***************************************************************************)
(* C16.  In the tree new_kd_tree builds over n points every index of       *)
(* [0, n) occurs exactly once, as a node's point_id or in a node's         *)
(* equal_ids; every index of an equal_ids bucket has the coordinates of    *)
(* its node's point; and in_range with an empty accumulator returns no     *)
(* index twice, so the length db_scan compares with min_points counts      *)
(* each neighbour once.  The indices and the buckets are checked after     *)
(* every insert too; the queries are made on the tree as it was built,     *)
(* with every radius, from every stored point and every point of the grid. *)
(***************************************************************************)
RECURSIVE TreeIds(_)
\* the indices stored in the tree, in pre-order, each as often as it is stored
TreeIds(t) ==
  IF t = None THEN <<>>
  ELSE <<t[1].point_id>> \o t[1].equal_ids \o TreeIds(t[1].left) \o TreeIds(t[1].right)

RECURSIVE BucketsEqual(_, _)
BucketsEqual(pts, t) ==
  \/ t = None
  \/ /\ \A k \in ToSet(t[1].equal_ids) : PointAt(pts, k) = PointAt(pts, t[1].point_id)
     /\ BucketsEqual(pts, t[1].left)
     /\ BucketsEqual(pts, t[1].right)

C16_EachIndexOnce ==
  pc = "tree" =>
    /\ NoRepeats(TreeIds(kd_tree.root))
    /\ ToSet(TreeIds(kd_tree.root)) = 0..(Len(kd_tree.points) - 1)
    /\ BucketsEqual(kd_tree.points, kd_tree.root)
    /\ Len(kd_tree.points) = Len(points) =>
         \A r \in Radii :
           \A pt \in TreeGrid \cup ToSet(kd_tree.points) :
             LET found == InRange(kd_tree, pt, r, <<>>)
             IN  NoRepeats(found) /\ Len(found) = Cardinality(ToSet(found))

\* a tree as new_kd_tree built it, with an inner node below the root that holds a bucket of
\* equal points, and a range query that returns that node with its bucket and another point
C16_Witness ==
  /\ pc = "tree" /\ Len(kd_tree.points) = Len(points) /\ Len(points) >= MaxTreePoints
  /\ kd_tree.root # None
  /\ \E side \in {kd_tree.root[1].left, kd_tree.root[1].right} :
       /\ side # None
       /\ side[1].equal_ids # <<>>
       /\ \E r \in Radii :
            \E pt \in ToSet(kd_tree.points) :
              LET found == InRange(kd_tree, pt, r, <<>>)
              IN  /\ Contains(found, side[1].point_id)
                  /\ Contains(found, At(side[1].equal_ids, 0))
                  /\ Len(found) >= 3

(***************************************************************************)
(* C17.  The frontier of db_scan never holds the same index twice, so it   *)
(* is never longer than the point list and the cursor stays within it;     *)
(* every drain ends (the cursor reaches the end of the frontier and the    *)
(* outer scan resumes) and db_scan returns.                                *)
(***************************************************************************)
C17_FrontierOnce ==
  pc = "drain" =>
    /\ NoRepeats(neighbor_pts)
    /\ Len(neighbor_pts) <= Len(points)
    /\ j <= Len(neighbor_pts)
    /\ ToSet(neighbor_pts) \subseteq Ids
    /\ \A k \in Ids : At(neighbor_unique, k) <=> Contains(neighbor_pts, k)

C17_DrainTerminates ==
  /\ [](C17_FrontierOnce)
  /\ (pc = "drain") ~> (pc = "scan")
  /\ <>(pc = "done")

\* the cursor at the end of a frontier that grew past the seed's neighbours to hold
\* every point of the list, after it met indices that were already marked
C17_Witness ==
  /\ pc = "drain" /\ Len(points) >= 3
  /\ j = Len(neighbor_pts)
  /\ Len(neighbor_pts) = Len(points)
  /\ Len(neighbor_pts) > Len(Neighbours(At(cluster.points, 0)))
  /\ \A k \in Ids : At(visited, k) /\ Len(Neighbours(k)) >= min_points

(***************************************************************************)
(* C18.  When every range query is exact, in the result of db_scan every   *)
(* core point is a member of exactly one cluster and is not in the noise   *)
(* list, and two core points within eps of each other are members of the   *)
(* same cluster, whatever the order of the points.  Stated for ExactSpec,  *)
(* whose calls are those with exact range queries.                         *)
(***************************************************************************)
\* the calls of db_scan for which the tree it builds answers every range query with
\* exactly the brute-force neighbourhood
ExactInit ==
  /\ points \in GridLists \cup LayoutLists
  /\ \E tree \in {NewKDTree(points)} :
       /\ eps \in Radii
       /\ \A k \in Ids :
            SortedIds(InRange(tree, PointAt(points, k), eps, <<>>))
              = RegionQuery(points, PointAt(points, k), eps)
  /\ Init

ExactSpec == ExactInit /\ [][Next]_vars

ClustersOf(p) == {n \in 1..Len(clusters) : Contains(clusters[n].points, p)}

C18_CorePoints ==
  Returned =>
    \A p \in Ids :
      IsCore(p) =>
        /\ Cardinality(ClustersOf(p)) = 1
        /\ ~Contains(noise, p)
        /\ \A q \in Near(p) : IsCore(q) => ClustersOf(q) = ClustersOf(p)

\* exact queries and a noise index; a core point that is no seed and that brought in a
\* core neighbour the seed does not reach
C18_Witness ==
  /\ pc = "done" /\ QueriesExact /\ eps > 0
  /\ noise # <<>>
  /\ \E n \in 1..Len(clusters) :
       \E p, q \in ToSet(clusters[n].points) :
         /\ IsCore(p) /\ IsCore(q)
         /\ p # At(clusters[n].points, 0) /\ q \in Near(p)
         /\ q \notin Near(At(clusters[n].points, 0))

(***************************************************************************)
(* C19.  When every range query is exact, at every step and in the result  *)
(* the first member of every cluster (its seed) is a core point and every  *)
(* other member lies within eps of a core point that joined the same       *)
(* cluster before it; and every index of the frontier lies within eps of   *)
(* a core member of the cluster being grown.  Stated for ExactSpec, whose   *)
(* calls are those with exact range queries.                               *)
(***************************************************************************)
ReachedIn(cl, m) ==
  \E a \in 1..(m - 1) : IsCore(cl.points[a]) /\ cl.points[m] \in Near(cl.points[a])

C19_DensityReachable ==
  Started =>
    /\ \A n \in 1..Len(ClustersSoFar) :
         LET cl == ClustersSoFar[n]
         IN  /\ cl.points # <<>>
             /\ IsCore(cl.points[1])
             /\ \A m \in 2..Len(cl.points) : ReachedIn(cl, m)
    /\ pc = "drain" =>
         \A f \in ToSet(neighbor_pts) :
           \E q \in ToSet(cluster.points) : IsCore(q) /\ f \in Near(q)

\* exact queries; a returned cluster of at least three members with a member that is
\* not core, and a point near that member which the cluster does not hold
C19_Witness ==
  /\ pc = "done" /\ QueriesExact /\ eps > 0
  /\ \E n \in 1..Len(clusters) :
       LET cl == clusters[n]
       IN  /\ Len(cl.points) >= 3
           /\ \E b \in ToSet(cl.points) :
                /\ ~IsCore(b)
                /\ \E o \in Near(b) : ~Contains(cl.points, o)

====
